---- MODULE Spec2Model ----
\* A model of src/src/redux/ProxyReduxAction.ts: the tag codec, the operation
\* classifier and reducer synthesizer (createReducerByHandler), the dispatch
\* interceptor (createReduxHandler) and the global dispatch sink.
\*
\* Strings the code computes with (tags, operation names) are sequences of
\* one-character strings, so that endsWith, startsWith, replace and template
\* concatenation are computed as the JavaScript built-ins compute them.
\* JavaScript values that are only stored and compared (states, payloads) are
\* TLA+ strings naming the value.
EXTENDS Integers, Sequences, FiniteSets, TLC

VARIABLES
    handlerObj,     \* the handler objects: own fields, prototype, default
    actionNames,    \* handler.actionNames: undefined, or a Map getter -> setter
                    \* (maps: how many Map objects the field has held)
    reducer,        \* the latest transition function synthesized per handler
    facade,         \* the Proxy made by createReduxHandler per handler
    sagaHandlers,   \* the registry addSagaHandler fills
    DEFAULT_STORE,  \* the module-level sink reference
    storeState,     \* per sink, the state it holds for each handler's reducer
    delivered,      \* per sink, the number of messages its dispatch received
    last,           \* the outcome of the last operation (history)
    tag0,           \* codec runs: the tag the run started from
    cur,            \* codec runs: the current string
    hist            \* codec runs: the codec functions applied, in order

vars == <<handlerObj, actionNames, reducer, facade, sagaHandlers, DEFAULT_STORE,
          storeState, delivered, last, tag0, cur, hist>>

mainVars == <<handlerObj, actionNames, reducer, facade, sagaHandlers,
              DEFAULT_STORE, storeState, delivered, last>>

codecVars == <<tag0, cur, hist>>

----------------------------------------------------------------------------
\* Bounds

\* the number of messages a behaviour hands to the sinks
MaxDispatch == 1

\* the number of pieces a codec input tag is built from
MaxPieces == 3

----------------------------------------------------------------------------
\* Strings

\* line 25
SAGA_ACTION_TYPE_SUFFIX == <<"_", "_", "S", "A", "G", "A">>

\* String.prototype.endsWith (line 163)
EndsWith(s, suf) ==
    /\ Len(s) >= Len(suf)
    /\ SubSeq(s, Len(s) - Len(suf) + 1, Len(s)) = suf

\* String.prototype.startsWith (line 101)
StartsWith(s, pre) ==
    /\ Len(s) >= Len(pre)
    /\ SubSeq(s, 1, Len(pre)) = pre

\* the 1-based start of the first occurrence of pat in s, 0 when there is none
IndexOf(s, pat) ==
    LET hits == {i \in 1..(Len(s) - Len(pat) + 1) :
                    SubSeq(s, i, i + Len(pat) - 1) = pat}
    IN IF hits = {} THEN 0 ELSE CHOOSE i \in hits : \A j \in hits : i <= j

\* String.prototype.replace with a string pattern: the first occurrence only
\* (line 199)
Replace(s, pat, rep) ==
    LET i == IndexOf(s, pat)
    IN IF i = 0 THEN s
       ELSE SubSeq(s, 1, i - 1) \o rep \o SubSeq(s, i + Len(pat), Len(s))

----------------------------------------------------------------------------
\* Tag codec

\* a plausible bug: the suffix is never removed
getReducerTypeNameBySaga_NoStrip(type) == type

\* lines 197-200
getReducerTypeNameBySaga(type) == Replace(type, SAGA_ACTION_TYPE_SUFFIX, <<>>)

\* lines 207-210
getSagaTypeNameByReducer(type) == type \o SAGA_ACTION_TYPE_SUFFIX

----------------------------------------------------------------------------
\* Names and values

Handlers == {"A", "B"}

\* the handlers the application wraps in a facade; B shares the sinks with A
\* and is reached through its reducer only
FacadeHandlers == {"A"}
Sinks == {"S1", "S2"}

\* handler.constructor.name (lines 38, 116)
ConstructorName(h) == <<h>>

N_setX == <<"s", "e", "t", "X">>
N_setY == <<"s", "e", "t", "Y">>
N_x == <<"x">>
N_reset == <<"r", "e", "s", "e", "t">>
N_fetch == <<"f", "e", "t", "c", "h">>
N_total == <<"t", "o", "t", "a", "l">>
N_nul == <<"n", "u", "l">>
N_goSaga == <<"g", "o">> \o SAGA_ACTION_TYPE_SUFFIX
N_unknown == <<"u", "n", "k", "n", "o", "w", "n">>
N_constructor == <<"c", "o", "n", "s", "t", "r", "u", "c", "t", "o", "r">>
N_toString == <<"t", "o", "S", "t", "r", "i", "n", "g">>
N_proto == <<"_", "_", "p", "r", "o", "t", "o", "_", "_">>
N_set == <<"s", "e", "t">>
N_default == <<"d", "e", "f", "a", "u", "l", "t">>
N_actionNames == <<"a", "c", "t", "i", "o", "n", "N", "a", "m", "e", "s">>

\* line 97
USE_NEW_SATE == "__USE_NEW_SATE__"

\* the states a store may hold and the payloads a message may carry: two
\* primitives, an object, and undefined
Payloads == {"undefined", "5", "{x:1}"}

\* A property value of a handler. kind is typeof's answer ("function" or not);
\* protoCtor is value.prototype.__proto__.constructor.name, "none" when the
\* value has no prototype property (a class method, an arrow function, a
\* non-function); v is what a function returns ("payload": its second
\* argument, "state": its first, otherwise that constant), or the value itself.
Method(ret) == [kind |-> "function", protoCtor |-> "none", v |-> ret]
Fn(ret) == [kind |-> "function", protoCtor |-> "Object", v |-> ret]
Gen == [kind |-> "function", protoCtor |-> "GeneratorFunctionPrototype",
        v |-> "generator-object"]
Val(x) == [kind |-> "value", protoCtor |-> "none", v |-> x]

Prop(k, val) == [key |-> k, value |-> val]

\* what every plain object inherits from Object.prototype (the names the
\* model uses): the table `actions = {}` of line 120 and every handler
\* prototype have them on their chain
ObjectPrototype ==
    (N_constructor :> [kind |-> "function", protoCtor |-> "Object", v |-> "Object()"])
    @@ (N_toString :> [kind |-> "function", protoCtor |-> "none", v |-> "toString()"])
    @@ (N_proto :> Val("Object.prototype"))

\* The handler classes of the model. own: the instance's own enumerable
\* fields, in insertion order (without the reserved default and actionNames);
\* proto: Object.getOwnPropertyNames of the prototype without "constructor",
\* in definition order; enumerableProto: whether for...in sees the prototype's
\* names (methods assigned to the prototype) or not (ES2015 class methods).
HandlerClasses ==
    { \* a saga handler: setters with and without a saga of the getter name,
      \* a plain transition, sagas
      [own |-> <<>>,
       proto |-> <<Prop(N_setX, Method("payload")), Prop(N_x, Gen),
                   Prop(N_setY, Method("payload")), Prop(N_reset, Fn("state")),
                   Prop(N_fetch, Gen)>>,
       enumerableProto |-> FALSE, default |-> "0"],
      \* operations held as instance fields: an arrow setter, a generator, the
      \* replace-state sentinel, a constant, a field that holds undefined
      [own |-> <<Prop(N_setX, Method("payload")), Prop(N_fetch, Gen),
                 Prop(N_reset, Val(USE_NEW_SATE)), Prop(N_total, Val("7")),
                 Prop(N_nul, Val("undefined"))>>,
       proto |-> <<Prop(N_x, Gen)>>,
       enumerableProto |-> FALSE, default |-> "0"],
      \* an operation whose own name ends with the deferred suffix, a null
      \* operation, an object default
      [own |-> <<>>,
       proto |-> <<Prop(N_goSaga, Method("payload")), Prop(N_nul, Val("null")),
                   Prop(N_setX, Fn("payload")), Prop(N_x, Method("state"))>>,
       enumerableProto |-> FALSE, default |-> "{x:1}"],
      \* methods assigned to the prototype (enumerable), a generator setter,
      \* a field that holds null, the default held by the prototype
      [own |-> <<Prop(N_nul, Val("null"))>>,
       proto |-> <<Prop(N_setX, Gen), Prop(N_x, Fn("state")),
                   Prop(N_total, Val("7")), Prop(N_default, Val("0"))>>,
       enumerableProto |-> TRUE, default |-> "0"] }

\* the class of handler B: a setter over an object state
SecondHandlerClass ==
    [own |-> <<>>,
     proto |-> <<Prop(N_goSaga, Method("payload")), Prop(N_nul, Val("null")),
                 Prop(N_setX, Fn("payload")), Prop(N_x, Method("state"))>>,
     enumerableProto |-> FALSE, default |-> "{x:1}"]

\* the operation names a facade is invoked with: every name of some class,
\* and one that no class has
OperationNames ==
    {N_setX, N_setY, N_x, N_reset, N_fetch, N_total, N_nul, N_goSaga, N_unknown}

Keys(props) == {props[i].key : i \in 1..Len(props)}

\* obj[key] on a list of properties: the last definition of the key wins
Get(props, key) ==
    LET hits == {i \in 1..Len(props) : props[i].key = key}
    IN props[CHOOSE i \in hits : \A j \in hits : j <= i].value

\* `name in handlerPrototype` (line 103): the prototype's own names, its
\* constructor, and what it inherits from Object.prototype
InPrototype(obj, name) ==
    name \in Keys(obj.proto) \cup DOMAIN ObjectPrototype

\* handlerPrototype[key] (line 143)
PrototypeGet(obj, key) == Get(obj.proto, key)

\* handler[key] (line 139): an own field shadows the prototype's
HandlerGet(obj, key) ==
    IF key \in Keys(obj.own) THEN Get(obj.own, key) ELSE Get(obj.proto, key)

\* the keys `for (const key in handler)` visits, in order (line 134): the own
\* enumerable fields, then the prototype's enumerable names not shadowed
ForInKeys(obj) ==
    LET ownKeys == [i \in 1..Len(obj.own) |-> obj.own[i].key]
        protoKeys == [i \in 1..Len(obj.proto) |-> obj.proto[i].key]
    IN IF obj.enumerableProto
       THEN ownKeys \o SelectSeq(protoKeys, LAMBDA k : k \notin Keys(obj.own))
       ELSE ownKeys

\* Object.getOwnPropertyNames(handlerPrototype) without "constructor"
\* (lines 132, 142)
PrototypeKeys(obj) == [i \in 1..Len(obj.proto) |-> obj.proto[i].key]

----------------------------------------------------------------------------
\* Operation classifier (lines 99-155)

\* String.prototype.toLowerCase on one character of the model's alphabet
ToLowerCase(c) ==
    CASE c = "X" -> "x"
      [] c = "Y" -> "y"
      [] c = "S" -> "s"
      [] c = "A" -> "a"
      [] c = "G" -> "g"
      [] c = "N" -> "n"
      [] OTHER -> c

\* FindNameStragegy.convertFunctionNameByPrefix: strip the "set" prefix and
\* lower-case the first remaining character
convertFunctionNameByPrefix(key) ==
    LET rest == SubSeq(key, Len(N_set) + 1, Len(key))
    IN IF rest = <<>> THEN rest
       ELSE <<ToLowerCase(Head(rest))>> \o Tail(rest)

QualifiedTag_NoNamespace(handlerName, key) == key

\* the template literal `${handlerName}.${key}` (lines 60, 100)
QualifiedTag(handlerName, key) == handlerName \o <<".">> \o key

\* util.isNullOrUndefined
isNullOrUndefined(value) ==
    value.kind = "value" /\ value.v \in {"null", "undefined"}

\* util.isFunction
isFunction(value) == value.kind = "function"

\* a plausible bug: every function counts as a generator
isGenerator_All(handle) == handle.kind = "function"

\* lines 81-90, applied to handle.prototype (line 148): falsy without a
\* prototype property, else whether the prototype's prototype is made by
\* GeneratorFunctionPrototype
isGenerator(handle) == handle.protoCtor = "GeneratorFunctionPrototype"

\* lines 99-107; acc is the table `actions` and the handler's actionNames map
addAction(acc, handlerName, key, handle, obj) ==
    LET getFuncName == convertFunctionNameByPrefix(key)
    IN [actions |-> (QualifiedTag(handlerName, key) :> handle) @@ acc.actions,
        names |-> IF StartsWith(key, N_set) /\ InPrototype(obj, getFuncName)
                  THEN (getFuncName :> key) @@ acc.names
                  ELSE acc.names]

\* lines 134-140
RECURSIVE OwnLoop(_, _, _, _)
OwnLoop(acc, keys, handlerName, obj) ==
    IF keys = <<>> THEN acc
    ELSE LET key == Head(keys)
             next == IF key = N_actionNames \/ key = N_default THEN acc
                     ELSE addAction(acc, handlerName, key, HandlerGet(obj, key), obj)
         IN OwnLoop(next, Tail(keys), handlerName, obj)

\* lines 142-155
RECURSIVE PrototypeLoop(_, _, _, _)
PrototypeLoop(acc, keys, handlerName, obj) ==
    IF keys = <<>> THEN acc
    ELSE LET key == Head(keys)
             handle == PrototypeGet(obj, key)
             next == IF key = N_constructor THEN acc
                     ELSE IF isNullOrUndefined(handle) THEN acc
                     ELSE IF isGenerator(handle) THEN acc
                     ELSE addAction(acc, handlerName, key, handle, obj)
         IN PrototypeLoop(next, Tail(keys), handlerName, obj)

\* lines 116-155: the table and the metadata map after both loops; names0 is
\* the handler's map on entry (empty when line 125 creates it)
Classify(handlerName, obj, names0) ==
    PrototypeLoop(
        OwnLoop([actions |-> <<>>, names |-> names0], ForInKeys(obj), handlerName, obj),
        PrototypeKeys(obj), handlerName, obj)

----------------------------------------------------------------------------
\* Reducer synthesizer (lines 160-188)

\* actions[type] (line 168): the table's own entry, else what the plain
\* object inherits, else undefined
Lookup(actions, type) ==
    IF type \in DOMAIN actions THEN actions[type]
    ELSE IF type \in DOMAIN ObjectPrototype THEN ObjectPrototype[type]
    ELSE Val("undefined")

\* handle(state, payload) (line 183)
Call(handle, state, payload) ==
    CASE handle.v = "payload" -> payload
      [] handle.v = "state" -> state
      [] handle.v = "Object()" ->
            IF state \in {"undefined", "null"} THEN "{}"
            ELSE IF state \in {"{x:1}", "{}", "generator-object", "Object.prototype"}
            THEN state
            ELSE "boxed-primitive"
      [] handle.v = "toString()" -> "[object Undefined]"
      [] OTHER -> handle.v

\* a plausible bug: the table is consulted before the deferred suffix
Reduce_LookupFirst(r, state, action) ==
    LET st == IF state = "undefined" THEN r.defaultState ELSE state
        handle == Lookup(r.actions, action.type)
    IN IF handle = Val("undefined") THEN [state |-> st, calls |-> <<>>]
       ELSE IF handle = Val(USE_NEW_SATE) THEN [state |-> action.payload, calls |-> <<>>]
       ELSE IF isFunction(handle)
       THEN [state |-> Call(handle, st, action.payload),
             calls |-> <<[f |-> handle, state |-> st, payload |-> action.payload]>>]
       ELSE [state |-> handle.v, calls |-> <<>>]

\* a plausible bug: no sentinel rule, the sentinel is a constant like another
Reduce_NoSentinel(r, state, action) ==
    LET st == IF state = "undefined" THEN r.defaultState ELSE state
        handle == Lookup(r.actions, action.type)
    IN IF EndsWith(action.type, SAGA_ACTION_TYPE_SUFFIX)
       THEN [state |-> st, calls |-> <<>>]
       ELSE IF handle = Val("undefined") THEN [state |-> st, calls |-> <<>>]
       ELSE IF isFunction(handle)
       THEN [state |-> Call(handle, st, action.payload),
             calls |-> <<[f |-> handle, state |-> st, payload |-> action.payload]>>]
       ELSE [state |-> handle.v, calls |-> <<>>]

\* a plausible bug: the operation is called with payload and state swapped
Reduce_SwappedArguments(r, state, action) ==
    LET st == IF state = "undefined" THEN r.defaultState ELSE state
        handle == Lookup(r.actions, action.type)
    IN IF EndsWith(action.type, SAGA_ACTION_TYPE_SUFFIX)
       THEN [state |-> st, calls |-> <<>>]
       ELSE IF handle = Val("undefined") THEN [state |-> st, calls |-> <<>>]
       ELSE IF handle = Val(USE_NEW_SATE) THEN [state |-> action.payload, calls |-> <<>>]
       ELSE IF isFunction(handle)
       THEN [state |-> Call(handle, action.payload, st),
             calls |-> <<[f |-> handle, state |-> action.payload, payload |-> st]>>]
       ELSE [state |-> handle.v, calls |-> <<>>]

\* the returned reducer, lines 160-188: the new state and the calls it made
Reduce(r, state, action) ==
    LET st == IF state = "undefined" THEN r.defaultState ELSE state
        handle == Lookup(r.actions, action.type)
    IN IF EndsWith(action.type, SAGA_ACTION_TYPE_SUFFIX)
       THEN [state |-> st, calls |-> <<>>]
       ELSE IF handle = Val("undefined") THEN [state |-> st, calls |-> <<>>]
       ELSE IF handle = Val(USE_NEW_SATE) THEN [state |-> action.payload, calls |-> <<>>]
       ELSE IF isFunction(handle)
       THEN [state |-> Call(handle, st, action.payload),
             calls |-> <<[f |-> handle, state |-> st, payload |-> action.payload]>>]
       ELSE [state |-> handle.v, calls |-> <<>>]

----------------------------------------------------------------------------
\* Dispatch interceptor and sink (lines 34-73, 212-250)

\* a plausible bug: the map's keys are scanned, not its values
IsPureAction_Keys(names, p, pureAction) ==
    \/ pureAction
    \/ /\ names.defined
       /\ p \in DOMAIN names.map

\* lines 46-57: pureAction, or p among the values of target.actionNames
IsPureAction(names, p, pureAction) ==
    \/ pureAction
    \/ /\ names.defined
       /\ \E k \in DOMAIN names.map : names.map[k] = p

\* lines 230-250: the message handed to DEFAULT_STORE.dispatch
proxyDispatchBySaga(type, payload, pureAction) ==
    [type |-> IF pureAction THEN type ELSE getSagaTypeNameByReducer(type),
     payload |-> payload]

\* a plausible bug: the sink of the first registration is kept for good
DispatchSink_First(store) == IF store = "undefined" THEN store ELSE "S1"

\* a plausible bug: a default sink stands in when none is registered
DispatchSink_Default(store) == IF store = "undefined" THEN "S1" ELSE store

\* DEFAULT_STORE as line 242 reads it: "undefined" until a store is registered
DispatchSink(store) == store

\* a plausible bug: the last argument is forwarded
FirstParam_Last(params) == IF params = <<>> THEN "undefined" ELSE params[Len(params)]

\* params[0] of the rest parameter (line 60)
FirstParam(params) == IF params = <<>> THEN "undefined" ELSE params[1]

----------------------------------------------------------------------------
\* The state machine

\* the argument lists a facade method is called with
ParamLists == {<<>>, <<"5">>, <<"{x:1}", "5">>}

\* messages that reach a sink from elsewhere than a facade: tags without a
\* dot, the names a plain object inherits, and a reserved field's tag
ExternalTags ==
    {N_unknown, N_constructor, N_toString, N_proto, <<"A", ".">> \o N_default}

\* what a store holds for a reducer before any message: nothing, or a
\* preloaded state
PreloadedStates == {"undefined", "3"}

NoMessage == [type |-> <<>>, payload |-> "undefined"]

NotApplied == [ran |-> FALSE, pre |-> "undefined", post |-> "undefined", calls |-> <<>>]

\* the record of an operation that dispatches nothing
Idle ==
    [op |-> "none", handler |-> "none", p |-> <<>>, params |-> <<>>,
     pureAction |-> FALSE, isPure |-> FALSE, names |-> [defined |-> FALSE, maps |-> 0, map |-> <<>>],
     fault |-> FALSE, sink |-> "undefined", msg |-> NoMessage, result |-> NoMessage,
     direct |-> <<>>,
     applied |-> [h \in Handlers |-> NotApplied]]

Dispatched == delivered["S1"] + delivered["S2"]

Init ==
    /\ handlerObj \in {f \in [Handlers -> HandlerClasses] : f["B"] = SecondHandlerClass}
    /\ actionNames = [h \in Handlers |-> [defined |-> FALSE, maps |-> 0, map |-> <<>>]]
    /\ reducer = [h \in Handlers |->
                    [made |-> FALSE, actions |-> <<>>, defaultState |-> "undefined"]]
    /\ facade = [h \in Handlers |-> [made |-> FALSE, pureAction |-> FALSE]]
    /\ sagaHandlers = {}
    /\ DEFAULT_STORE = "undefined"
    /\ \E v \in PreloadedStates : storeState = [s \in Sinks |-> [h \in Handlers |-> v]]
    /\ delivered = [s \in Sinks |-> 0]
    /\ last = Idle
    /\ tag0 = <<>>
    /\ cur = <<>>
    /\ hist = <<>>

\* SagaManager.addSagaHandler: the handler joins the registry
addSagaHandler(registry, h) == registry \cup {h}

\* createReduxHandler(handler, pureAction), lines 34-73: registers the handler
\* with the saga manager and returns the Proxy
CreateReduxHandler(h, pureAction) ==
    /\ sagaHandlers' = addSagaHandler(sagaHandlers, h)
    /\ facade' = [facade EXCEPT ![h] = [made |-> TRUE, pureAction |-> pureAction]]
    /\ last' = Idle
    /\ UNCHANGED <<handlerObj, actionNames, reducer, DEFAULT_STORE, storeState,
                   delivered, codecVars>>

\* a plausible bug: every call gives the handler a new, empty Map
InitActionNames_Always(names) ==
    [defined |-> TRUE, maps |-> names.maps + 1, map |-> <<>>]

\* lines 124-126: the handler gets a Map only when it has none
InitActionNames(names) ==
    IF names.defined THEN names
    ELSE [defined |-> TRUE, maps |-> names.maps + 1, map |-> <<>>]

\* createReducerByHandler(handler), lines 114-190
CreateReducerByHandler(h) ==
    LET names0 == InitActionNames(actionNames[h])
        acc == Classify(ConstructorName(h), handlerObj[h], names0.map)
    IN /\ actionNames' = [actionNames EXCEPT ![h] = [names0 EXCEPT !.map = acc.names]]
       /\ reducer' = [reducer EXCEPT ![h] =
                        [made |-> TRUE, actions |-> acc.actions,
                         defaultState |-> handlerObj[h].default]]
       /\ last' = [Idle EXCEPT !.op = "createReducer", !.handler = h,
                               !.names = actionNames[h]]
       /\ UNCHANGED <<handlerObj, facade, sagaHandlers, DEFAULT_STORE, storeState,
                      delivered, codecVars>>

\* registerStoreByProxy(store), lines 218-221
RegisterStoreByProxy(s) ==
    /\ DEFAULT_STORE' = s
    /\ last' = [Idle EXCEPT !.op = "register", !.sink = s]
    /\ UNCHANGED <<handlerObj, actionNames, reducer, facade, sagaHandlers,
                   storeState, delivered, codecVars>>

\* what the store's dispatch does with a message: every synthesized reducer
\* is applied to the state the store holds for it
Applied(s, msg) ==
    [h \in Handlers |->
        IF reducer[h].made
        THEN LET out == Reduce(reducer[h], storeState[s][h], msg)
             IN [ran |-> TRUE, pre |-> storeState[s][h], post |-> out.state,
                 calls |-> out.calls]
        ELSE NotApplied]

\* store.dispatch(msg) (line 242): the store receives the message, applies the
\* reducers and returns the message
StoreDispatch(s, msg) ==
    /\ delivered' = [delivered EXCEPT ![s] = @ + 1]
    /\ storeState' = [storeState EXCEPT ![s] =
                        [h \in Handlers |->
                            IF reducer[h].made THEN Applied(s, msg)[h].post ELSE @[h]]]

\* the calls of target[p] the forwarding function makes (lines 44-61): none,
\* the target is read for actionNames only
ForwardingCalls(obj, p, params) == <<>>

\* what store.dispatch returns to proxyDispatchBySaga (line 242): the message
StoreResult(s, msg) == msg

\* a call facade.p(...params), lines 42-62 and 230-250. Without a registered
\* store, DEFAULT_STORE.dispatch throws a TypeError out of the call.
Invoke(h, p, params) ==
    LET isPure == IsPureAction(actionNames[h], p, facade[h].pureAction)
        msg == proxyDispatchBySaga(QualifiedTag(ConstructorName(h), p),
                                   FirstParam(params), isPure)
        rec == [Idle EXCEPT !.op = "invoke", !.handler = h, !.p = p,
                            !.params = params, !.pureAction = facade[h].pureAction,
                            !.isPure = isPure, !.names = actionNames[h], !.msg = msg,
                            !.direct = ForwardingCalls(handlerObj[h], p, params)]
        sink == DispatchSink(DEFAULT_STORE)
    IN /\ facade[h].made
       /\ IF sink = "undefined"
          THEN /\ last' = [rec EXCEPT !.fault = TRUE]
               /\ UNCHANGED <<storeState, delivered>>
          ELSE /\ Dispatched < MaxDispatch
               /\ StoreDispatch(sink, msg)
               /\ last' = [rec EXCEPT !.sink = sink, !.result = StoreResult(sink, msg),
                                      !.applied = Applied(sink, msg)]
       /\ UNCHANGED <<handlerObj, actionNames, reducer, facade, sagaHandlers,
                      DEFAULT_STORE, codecVars>>

\* the property names and the value written on a facade
WrittenNames == {N_unknown, N_default}
WrittenValues == {"9"}

\* a plausible bug: the write goes through to the target, as without a trap
SetTrap_Writes(target, p, value) ==
    IF p = N_default
    THEN [target EXCEPT !.obj.default = value]
    ELSE [target EXCEPT !.obj.own = Append(@, Prop(p, Val(value)))]

\* the set trap, lines 64-67: the target (the handler and its actionNames)
\* after the trap, which reports success and writes nothing
SetTrap(target, p, value) == target

\* a property write facade[p] = value, lines 64-67
FacadeSet(h, p, value) ==
    LET target == SetTrap([obj |-> handlerObj[h], names |-> actionNames[h]], p, value)
    IN /\ facade[h].made
       /\ handlerObj' = [handlerObj EXCEPT ![h] = target.obj]
       /\ actionNames' = [actionNames EXCEPT ![h] = target.names]
       /\ last' = [Idle EXCEPT !.op = "set", !.handler = h, !.p = p,
                               !.params = <<value>>]
       /\ UNCHANGED <<reducer, facade, sagaHandlers, DEFAULT_STORE, storeState,
                      delivered, codecVars>>

\* a message dispatched to a store by other code
ExternalDispatch(s, type, payload) ==
    LET msg == [type |-> type, payload |-> payload]
    IN /\ Dispatched < MaxDispatch
       /\ StoreDispatch(s, msg)
       /\ last' = [Idle EXCEPT !.op = "external", !.sink = s, !.msg = msg,
                               !.result = msg, !.applied = Applied(s, msg)]
       /\ UNCHANGED <<handlerObj, actionNames, reducer, facade, sagaHandlers,
                      DEFAULT_STORE, codecVars>>

Next ==
    \/ \E h \in FacadeHandlers, pureAction \in BOOLEAN : CreateReduxHandler(h, pureAction)
    \/ \E h \in Handlers : CreateReducerByHandler(h)
    \/ \E s \in Sinks : RegisterStoreByProxy(s)
    \/ \E h \in FacadeHandlers, p \in OperationNames, params \in ParamLists :
            Invoke(h, p, params)
    \/ \E s \in Sinks, type \in ExternalTags, payload \in {"5"} :
            ExternalDispatch(s, type, payload)
    \/ \E h \in FacadeHandlers, p \in WrittenNames, value \in WrittenValues :
            FacadeSet(h, p, value)

Spec == Init /\ [][Next]_vars

----------------------------------------------------------------------------
\* Codec runs: the two codec functions applied to a tag, one after the other

\* the number of codec functions a run applies
MaxCodecSteps == 2

\* the pieces codec input tags are concatenated from: name characters, the
\* suffix, and parts of the suffix
Pieces ==
    { <<"A">>, <<".">>, <<"x">>, <<"_">>, <<"_", "_", "S", "A", "G">>,
      <<"S", "A", "G", "A">>, SAGA_ACTION_TYPE_SUFFIX }

RECURSIVE TagsUpTo(_)
TagsUpTo(n) ==
    IF n = 0 THEN {<<>>}
    ELSE LET shorter == TagsUpTo(n - 1)
         IN shorter \cup {t \o piece : t \in shorter, piece \in Pieces}

\* a tag is never empty
CodecTags == TagsUpTo(MaxPieces) \ {<<>>}

CodecInit ==
    /\ handlerObj = [h \in Handlers |-> SecondHandlerClass]
    /\ actionNames = [h \in Handlers |-> [defined |-> FALSE, maps |-> 0, map |-> <<>>]]
    /\ reducer = [h \in Handlers |->
                    [made |-> FALSE, actions |-> <<>>, defaultState |-> "undefined"]]
    /\ facade = [h \in Handlers |-> [made |-> FALSE, pureAction |-> FALSE]]
    /\ sagaHandlers = {}
    /\ DEFAULT_STORE = "undefined"
    /\ storeState = [s \in Sinks |-> [h \in Handlers |-> "undefined"]]
    /\ delivered = [s \in Sinks |-> 0]
    /\ last = Idle
    /\ tag0 \in CodecTags
    /\ cur = tag0
    /\ hist = <<>>

\* cur = getSagaTypeNameByReducer(cur)
ToDeferredTag ==
    /\ Len(hist) < MaxCodecSteps
    /\ cur' = getSagaTypeNameByReducer(cur)
    /\ hist' = Append(hist, "to")
    /\ UNCHANGED <<tag0, mainVars>>

\* cur = getReducerTypeNameBySaga(cur)
FromDeferredTag ==
    /\ Len(hist) < MaxCodecSteps
    /\ cur' = getReducerTypeNameBySaga(cur)
    /\ hist' = Append(hist, "from")
    /\ UNCHANGED <<tag0, mainVars>>

CodecNext == ToDeferredTag \/ FromDeferredTag

SpecCodec == CodecInit /\ [][CodecNext]_vars

----------------------------------------------------------------------------
\* Properties

\* the state a reducer works on: its default when it is given undefined
\* (the default parameter of line 160)
GivenState(h, pre) == IF pre = "undefined" THEN reducer[h].defaultState ELSE pre

InvokedTag == QualifiedTag(ConstructorName(last.handler), last.p)

Delivered == last.op = "invoke" /\ ~last.fault

\* the values of a metadata map
MapValues(names) == {names.map[k] : k \in DOMAIN names.map}

\* n is an operation the classifier put in the transition table and that is
\* not generator-shaped
RegisteredPure(h, n) ==
    LET tag == QualifiedTag(ConstructorName(h), n)
    IN /\ reducer[h].made
       /\ tag \in DOMAIN reducer[h].actions
       /\ ~isGenerator(reducer[h].actions[tag])

\* n is a generator-shaped operation of the prototype, which the classifier
\* skips (lines 148-150)
SkippedGenerator(h, n) ==
    /\ n \in Keys(handlerObj[h].proto)
    /\ isGenerator(PrototypeGet(handlerObj[h], n))

\* n is a generator-shaped operation of the handler, on the prototype or as
\* a field of the instance
GeneratorOperation(h, n) ==
    \/ SkippedGenerator(h, n)
    \/ /\ n \in Keys(handlerObj[h].own)
       /\ isGenerator(HandlerGet(handlerObj[h], n))

\* C1: invoking on a facade an operation that the classifier registered as a
\* pure transition dispatches the tag "<Identity>.n" without the deferred
\* suffix, whatever the facade's pureAction flag.
C1_PureOperationUnsuffixed ==
    (Delivered /\ RegisteredPure(last.handler, last.p))
        => last.msg.type = InvokedTag

\* C2 as stated: invoking a generator-shaped operation the classifier skipped
\* dispatches the suffixed tag, whatever the facade's pureAction flag.
C2_DeferredOperationSuffixed ==
    (Delivered /\ SkippedGenerator(last.handler, last.p))
        => last.msg.type = getSagaTypeNameByReducer(InvokedTag)

\* C2 amended: invoking a generator-shaped operation the classifier skipped
\* dispatches the suffixed tag, unless the facade was built with pureAction
\* or the name is a value of the handler's metadata map at the call; then the
\* tag is dispatched without the suffix.
C2_DeferredOperationSuffixedUnlessPure ==
    (Delivered /\ SkippedGenerator(last.handler, last.p))
        => last.msg.type =
              IF last.pureAction \/ last.p \in MapValues(last.names)
              THEN InvokedTag
              ELSE InvokedTag \o SAGA_ACTION_TYPE_SUFFIX

\* a skipped generator was invoked on a facade built without pureAction, after
\* the classifier filled the metadata map, and went out suffixed
C2_Witness ==
    /\ Delivered
    /\ SkippedGenerator(last.handler, last.p)
    /\ ~last.pureAction
    /\ last.names.defined /\ last.names.map # <<>>
    /\ last.msg.type = InvokedTag \o SAGA_ACTION_TYPE_SUFFIX

\* C3: a reducer applied to a message whose tag ends with the deferred suffix
\* returns the state it was given and calls nothing, whatever its table
\* holds; the state the store holds for it stays.
C3_SuffixedTagKeepsState ==
    \A h \in Handlers :
        (last.applied[h].ran /\ EndsWith(last.msg.type, SAGA_ACTION_TYPE_SUFFIX))
            => /\ last.applied[h].post = GivenState(h, last.applied[h].pre)
               /\ last.applied[h].calls = <<>>
               /\ storeState[last.sink][h] = GivenState(h, last.applied[h].pre)

\* a message whose suffixed tag is a key of the table (an operation whose own
\* name ends with the suffix) was applied to a preloaded state
C3_Witness ==
    \E h \in Handlers :
        /\ last.applied[h].ran
        /\ EndsWith(last.msg.type, SAGA_ACTION_TYPE_SUFFIX)
        /\ last.msg.type \in DOMAIN reducer[h].actions
        /\ last.msg.payload # last.applied[h].pre
        /\ last.applied[h].pre = "3"
        /\ last.applied[h].post = "3"

\* C4: a reducer applied to a message whose tag is no key addAction put in
\* its table returns the state it was given and calls nothing.
C4_UnknownTagKeepsState ==
    \A h \in Handlers :
        (last.applied[h].ran /\ last.msg.type \notin DOMAIN reducer[h].actions)
            => /\ last.applied[h].post = GivenState(h, last.applied[h].pre)
               /\ last.applied[h].calls = <<>>

\* C5: no generator-shaped operation of a handler is in its transition
\* table, and a message tagged "<Identity>.<generator operation>" leaves the
\* state as given and calls nothing.
C5_GeneratorNeverInTable ==
    \A h \in Handlers :
        /\ reducer[h].made =>
              \A tag \in DOMAIN reducer[h].actions : ~isGenerator(reducer[h].actions[tag])
        /\ \A n \in OperationNames :
              (/\ last.applied[h].ran
               /\ GeneratorOperation(h, n)
               /\ last.msg.type = QualifiedTag(ConstructorName(h), n))
                  => /\ last.applied[h].post = GivenState(h, last.applied[h].pre)
                     /\ last.applied[h].calls = <<>>

\* C6: when the table holds the replace-state sentinel for a message's tag,
\* the reducer returns the message's payload, whatever the state was, and
\* calls nothing.
C6_SentinelReplacesState ==
    \A h \in Handlers :
        (/\ last.applied[h].ran
         /\ ~EndsWith(last.msg.type, SAGA_ACTION_TYPE_SUFFIX)
         /\ Lookup(reducer[h].actions, last.msg.type) = Val(USE_NEW_SATE))
            => /\ last.applied[h].post = last.msg.payload
               /\ last.applied[h].calls = <<>>
               /\ storeState[last.sink][h] = last.msg.payload

\* the sentinel's tag was applied with the payload undefined to a preloaded
\* state
C6_Witness ==
    \E h \in Handlers :
        /\ last.applied[h].ran
        /\ Lookup(reducer[h].actions, last.msg.type) = Val(USE_NEW_SATE)
        /\ last.applied[h].pre = "3"
        /\ last.msg.payload = "undefined"
        /\ last.applied[h].post = "undefined"

\* what C7 expects of a table entry: a callable is called once with the
\* given state and the payload and its result is the new state; another
\* value is the new state
ExpectedOfEntry(h, handle) ==
    IF isFunction(handle)
    THEN /\ last.applied[h].calls =
               <<[f |-> handle, state |-> GivenState(h, last.applied[h].pre),
                  payload |-> last.msg.payload]>>
         /\ handle.v = "payload" => last.applied[h].post = last.msg.payload
         /\ handle.v = "state" =>
               last.applied[h].post = GivenState(h, last.applied[h].pre)
         /\ handle.v \notin {"payload", "state"} => last.applied[h].post = handle.v
    ELSE /\ last.applied[h].calls = <<>>
         /\ last.applied[h].post = handle.v

\* C7 as stated: a tag registered with a callable f yields f(state, payload),
\* f called once; a registered value that is neither the sentinel nor
\* callable is returned as the new state.
C7_RegisteredEntryApplied ==
    \A h \in Handlers :
        (/\ last.applied[h].ran
         /\ ~EndsWith(last.msg.type, SAGA_ACTION_TYPE_SUFFIX)
         /\ last.msg.type \in DOMAIN reducer[h].actions
         /\ reducer[h].actions[last.msg.type] # Val(USE_NEW_SATE))
            => ExpectedOfEntry(h, reducer[h].actions[last.msg.type])

\* C7 amended: as C7, but a key registered with the value undefined counts as
\* absent: the state is returned as given.
C7_RegisteredEntryAppliedUnlessUndefined ==
    \A h \in Handlers :
        (/\ last.applied[h].ran
         /\ ~EndsWith(last.msg.type, SAGA_ACTION_TYPE_SUFFIX)
         /\ last.msg.type \in DOMAIN reducer[h].actions
         /\ reducer[h].actions[last.msg.type] # Val(USE_NEW_SATE))
            => IF reducer[h].actions[last.msg.type] = Val("undefined")
               THEN /\ last.applied[h].post = GivenState(h, last.applied[h].pre)
                    /\ last.applied[h].calls = <<>>
               ELSE ExpectedOfEntry(h, reducer[h].actions[last.msg.type])

\* a registered setter was applied to a preloaded state and returned its
\* payload
C7_Witness ==
    \E h \in Handlers :
        /\ last.applied[h].ran
        /\ last.msg.type \in DOMAIN reducer[h].actions
        /\ isFunction(reducer[h].actions[last.msg.type])
        /\ reducer[h].actions[last.msg.type].v = "payload"
        /\ last.applied[h].pre = "3"
        /\ last.msg.payload = "5"
        /\ last.applied[h].post = "5"
        /\ Len(last.applied[h].calls) = 1

\* C8: getReducerTypeNameBySaga(getSagaTypeNameByReducer(t)) = t for every
\* tag t that does not contain the suffix.
C8_RoundTrip ==
    (hist = <<"to", "from">> /\ IndexOf(tag0, SAGA_ACTION_TYPE_SUFFIX) = 0)
        => cur = tag0

\* the round trip ran on a tag that ends one character short of the suffix
C8_Witness ==
    /\ hist = <<"to", "from">>
    /\ IndexOf(tag0, SAGA_ACTION_TYPE_SUFFIX) = 0
    /\ EndsWith(tag0, <<"_", "_", "S", "A", "G">>)
    /\ cur = tag0

\* C9: getReducerTypeNameBySaga removes the marker only as a suffix: a tag
\* that ends with it loses that trailing suffix, any other tag is returned
\* unchanged, and a second application to a tag without the suffix changes
\* nothing.
C9_StripsOnlyTrailingSuffix ==
    /\ hist = <<"from">> =>
          IF EndsWith(tag0, SAGA_ACTION_TYPE_SUFFIX)
          THEN cur = SubSeq(tag0, 1, Len(tag0) - Len(SAGA_ACTION_TYPE_SUFFIX))
          ELSE cur = tag0
    /\ (hist = <<"from", "from">> /\ ~EndsWith(tag0, SAGA_ACTION_TYPE_SUFFIX))
          => cur = tag0

\* C10: a facade call made while no store was ever registered faults: no
\* store receives a message, no state a store holds changes, and no store
\* becomes registered.
C10_DispatchBeforeRegistrationFaults ==
    [][(DEFAULT_STORE = "undefined" /\ last'.op = "invoke")
          => /\ last'.fault
             /\ delivered' = delivered
             /\ storeState' = storeState
             /\ DEFAULT_STORE' = "undefined"]_vars

\* a facade call faulted while reducers were synthesized and stores held
\* states
C10_Witness ==
    /\ last.op = "invoke"
    /\ last.fault
    /\ DEFAULT_STORE = "undefined"
    /\ \A h \in Handlers : reducer[h].made
    /\ storeState["S1"]["A"] = "3"

\* C11: the sink is last-writer-wins and read at call time: a registration
\* makes its store the sink and moves, repeats or re-delivers nothing; a
\* facade call hands exactly one message to the store registered last before
\* it, and to no other.
C11_LastRegisteredSinkReceives ==
    [][/\ last'.op = "register"
            => /\ DEFAULT_STORE' = last'.sink
               /\ delivered' = delivered
               /\ storeState' = storeState
       /\ (last'.op = "invoke" /\ ~last'.fault)
            => /\ DEFAULT_STORE # "undefined"
               /\ last'.sink = DEFAULT_STORE
               /\ DEFAULT_STORE' = DEFAULT_STORE
               /\ delivered' = [delivered EXCEPT ![DEFAULT_STORE] = @ + 1]
               /\ \A s \in Sinks \ {DEFAULT_STORE} : storeState'[s] = storeState[s]]_vars

\* another store was registered after a facade call handed a setter's
\* message to the first (only a facade's message makes the state "5"): the
\* first keeps its one message and its state, the second has none
C11_Witness ==
    /\ last.op = "register"
    /\ DEFAULT_STORE = "S2"
    /\ delivered["S1"] = 1
    /\ storeState["S1"]["A"] = "5"
    /\ delivered["S2"] = 0
    /\ storeState["S2"]["A"] = "3"

\* C12: a facade call hands exactly one message to a store, whose payload is
\* the call's first argument (undefined without arguments, further arguments
\* dropped), returns what the store's dispatch returned, and calls no
\* operation of the handler itself.
C12_OneMessageWithFirstArgument ==
    [][(last'.op = "invoke" /\ ~last'.fault)
          => /\ Dispatched' = Dispatched + 1
             /\ last'.msg.payload =
                   IF last'.params = <<>> THEN "undefined" ELSE Head(last'.params)
             /\ last'.result = StoreResult(last'.sink, last'.msg)
             /\ last'.direct = <<>>]_vars

\* a registered callable operation was invoked with two arguments and the
\* first one went out
C12_Witness ==
    /\ Delivered
    /\ RegisteredPure(last.handler, last.p)
    /\ isFunction(HandlerGet(handlerObj[last.handler], last.p))
    /\ last.params = <<"{x:1}", "5">>
    /\ last.msg.payload = "{x:1}"
    /\ last.result = last.msg

\* C13: a property write on a facade is accepted without a fault and leaves
\* the handler as it was: its operations, its default and its metadata map,
\* and with them the reducers synthesized, the facades and the stores.
C13_FacadeWriteChangesNothing ==
    [][last'.op = "set"
          => /\ ~last'.fault
             /\ handlerObj' = handlerObj
             /\ actionNames' = actionNames
             /\ reducer' = reducer
             /\ facade' = facade
             /\ storeState' = storeState
             /\ delivered' = delivered]_vars

\* "default" was written on the facade of a classified handler, whose default
\* and metadata map are as before
C13_Witness ==
    /\ last.op = "set"
    /\ last.p = N_default
    /\ last.params = <<"9">>
    /\ reducer[last.handler].made
    /\ actionNames[last.handler].map # <<>>
    /\ handlerObj[last.handler].default = "0"
    /\ last.handler \in sagaHandlers

\* C14: once a handler's metadata map exists, no operation replaces the Map
\* object or removes or changes an entry of it; entries are only added.
C14_MetadataMapOnlyGrows ==
    [][\A h \in Handlers :
          actionNames[h].defined
             => /\ actionNames'[h].defined
                /\ actionNames'[h].maps = actionNames[h].maps
                /\ \A k \in DOMAIN actionNames[h].map :
                      /\ k \in DOMAIN actionNames'[h].map
                      /\ actionNames'[h].map[k] = actionNames[h].map[k]]_vars

\* createReducerByHandler ran on a handler whose map already held an entry,
\* and the handler still has its first Map with that entry
C14_Witness ==
    /\ last.op = "createReducer"
    /\ last.names.defined
    /\ last.names.map # <<>>
    /\ actionNames[last.handler].maps = 1
    /\ actionNames[last.handler].map = last.names.map
    /\ facade[last.handler].made

\* the handler has a generator-shaped operation
HasDeferredOperation(h) == \E n \in OperationNames : GeneratorOperation(h, n)

\* C15: the deferred-operation registry holds only handlers that have at
\* least one generator-shaped operation: a handler without one is never
\* registered.
C15_RegistryHoldsDeferredHandlersOnly ==
    \A h \in sagaHandlers : HasDeferredOperation(h)

\* C16: after createReducerByHandler the metadata map holds getter -> setter
\* exactly for the operations registered as pure transitions whose name
\* begins with "set" and whose derived getter name is on the prototype; no
\* other name, and no generator-shaped operation, is a value of the map.
C16_MetadataMapHoldsPureSetters ==
    \A h \in Handlers :
        reducer[h].made =>
            /\ \A n \in OperationNames :
                  (/\ RegisteredPure(h, n)
                   /\ StartsWith(n, N_set)
                   /\ InPrototype(handlerObj[h], convertFunctionNameByPrefix(n)))
                      => /\ convertFunctionNameByPrefix(n) \in DOMAIN actionNames[h].map
                         /\ actionNames[h].map[convertFunctionNameByPrefix(n)] = n
            /\ \A k \in DOMAIN actionNames[h].map :
                  LET n == actionNames[h].map[k]
                  IN /\ StartsWith(n, N_set)
                     /\ k = convertFunctionNameByPrefix(n)
                     /\ InPrototype(handlerObj[h], k)
                     /\ RegisteredPure(h, n)
                     /\ ~GeneratorOperation(h, n)

\* the names createReducerByHandler is to leave out of the table
ReservedNames == {N_constructor, N_default, N_actionNames}

\* C17: no transition table has a key "<Identity>.constructor",
\* "<Identity>.default" or "<Identity>.actionNames", and a message with such
\* a tag leaves the state as given.
C17_ReservedNamesNeverInTable ==
    \A h \in Handlers : \A n \in ReservedNames :
        /\ reducer[h].made =>
              QualifiedTag(ConstructorName(h), n) \notin DOMAIN reducer[h].actions
        /\ (last.applied[h].ran /\ last.msg.type = QualifiedTag(ConstructorName(h), n))
              => /\ last.applied[h].post = GivenState(h, last.applied[h].pre)
                 /\ last.applied[h].calls = <<>>

\* C18: a reducer given an undefined state works on the handler's default
\* as read when the reducer was synthesized: it returns that default for an
\* unknown or suffixed tag and f(default, payload) for a tag registered with
\* a callable f.
C18_UndefinedStateTakesSynthesisDefault ==
    \A h \in Handlers :
        /\ (last.op = "createReducer" /\ last.handler = h)
              => reducer[h].defaultState = handlerObj[h].default
        /\ (last.applied[h].ran /\ last.applied[h].pre = "undefined")
              => IF \/ EndsWith(last.msg.type, SAGA_ACTION_TYPE_SUFFIX)
                    \/ last.msg.type \notin DOMAIN reducer[h].actions
                 THEN /\ last.applied[h].post = reducer[h].defaultState
                      /\ last.applied[h].calls = <<>>
                 ELSE isFunction(reducer[h].actions[last.msg.type])
                         => ExpectedOfEntry(h, reducer[h].actions[last.msg.type])

\* C19: handlers that share a store are isolated: whatever operation is
\* invoked on A's facade, suffixed or not, B's reducer returns the state it
\* was given for the message and calls nothing, and the store keeps B's state.
C19_OtherHandlerStateKept ==
    (Delivered /\ last.handler = "A" /\ last.applied["B"].ran)
        => /\ last.applied["B"].post = GivenState("B", last.applied["B"].pre)
           /\ last.applied["B"].calls = <<>>
           /\ storeState[last.sink]["B"] = GivenState("B", last.applied["B"].pre)

\* setX, which both handlers register, was invoked on A's facade: A's
\* reducer took the payload, B's kept its preloaded state
C19_Witness ==
    /\ Delivered
    /\ last.handler = "A"
    /\ last.p = N_setX
    /\ <<"B", ".">> \o N_setX \in DOMAIN reducer["B"].actions
    /\ last.applied["A"].ran
    /\ last.applied["A"].post = "5"
    /\ last.applied["B"].ran
    /\ last.applied["B"].pre = "3"
    /\ last.applied["B"].post = "3"

\* the metadata map createReducerByHandler builds for handler h
ClassifiedNames(h) == Classify(ConstructorName(h), handlerObj[h], <<>>).names

\* C20: a facade built without pureAction dispatches a setter that the
\* classifier records in the metadata map with the unsuffixed tag, whether
\* the call comes before or after createReducerByHandler ran on the handler.
C20_TagIndependentOfOrdering ==
    (/\ Delivered
     /\ ~last.pureAction
     /\ \E k \in DOMAIN ClassifiedNames(last.handler) :
           ClassifiedNames(last.handler)[k] = last.p)
        => last.msg.type = InvokedTag

====
